---------------------------- MODULE Spec2Model ----------------------------
(***************************************************************************)
(* A model of cmd/type2kaitai (src/cmd/type2kaitai/main.go): the           *)
(* translation of Go type declarations into a Kaitai Struct schema.        *)
(*                                                                         *)
(* A Go string is a sequence of runes, each rune written as a one-rune     *)
(* TLA+ string ("a", "B", "_"); the rune U+2102 (DOUBLE-STRUCK CAPITAL C)  *)
(* is written "U+2102".  An output line is a record                        *)
(*     [ind, key, val, note]                                               *)
(* for the text  <ind spaces><key>: <val> # <note>.                        *)
(***************************************************************************)
EXTENDS Integers, Sequences, FiniteSets, TLC

(***************************************************************************)
(* Bounds of the model.                                                    *)
(***************************************************************************)
\* Longest identifier the normalizer is run on in SnakeSpec.
MaxIdentLen == 3
\* Most type names given with -type in one run.
MaxTypes == 2
\* Deepest nesting of kaiType calls the model follows.
MaxDepth == 4

(***************************************************************************)
(* Runes: unicode.IsUpper and unicode.ToLower (main.go:326, 330).          *)
(* U+2102 is in Unicode category Lu and has no lower-case mapping, so      *)
(* unicode.IsUpper reports true for it and unicode.ToLower returns it      *)
(* unchanged; it is a letter, hence legal in a Go identifier.              *)
(***************************************************************************)
UpperLetters ==
    <<"A","B","C","D","E","F","G","H","I","J","K","L","M",
      "N","O","P","Q","R","S","T","U","V","W","X","Y","Z">>

LowerLetters ==
    <<"a","b","c","d","e","f","g","h","i","j","k","l","m",
      "n","o","p","q","r","s","t","u","v","w","x","y","z">>

UncasedUpper == "U+2102"

IsUpper(r) ==
    \/ \E i \in DOMAIN UpperLetters : UpperLetters[i] = r
    \/ r = UncasedUpper

ToLower(r) ==
    IF \E i \in DOMAIN UpperLetters : UpperLetters[i] = r
    THEN LowerLetters[CHOOSE i \in DOMAIN UpperLetters : UpperLetters[i] = r]
    ELSE r

(***************************************************************************)
(* snakeCase (main.go:322-338): one pass over the runes of s, carrying     *)
(* prevUpper, which starts true.                                           *)
(***************************************************************************)
RECURSIVE snakeLoop(_, _, _)
snakeLoop(s, prevUpper, out) ==
    IF s = <<>> THEN out
    ELSE LET r == Head(s) IN
         IF IsUpper(r)
         THEN snakeLoop(Tail(s), TRUE,
                        (IF ~prevUpper THEN Append(out, "_") ELSE out)
                            \o <<ToLower(r)>>)
         ELSE snakeLoop(Tail(s), FALSE, Append(out, r))

snakeCase(s) == snakeLoop(s, TRUE, <<>>)

(***************************************************************************)
(* types.BasicKind and basicKindToKai (main.go:269-319).                   *)
(***************************************************************************)
\* The kinds the switch has a case for.
MappedKinds ==
    {"Bool", "Int", "Int8", "Int16", "Int32", "Int64",
     "Uint", "Uint8", "Uint16", "Uint32", "Uint64", "Uintptr",
     "Float32", "Float64", "Complex64", "Complex128",
     "String", "UnsafePointer"}

\* The kinds of untyped constants, commented out in the switch.
UntypedKinds ==
    {"UntypedBool", "UntypedInt", "UntypedRune", "UntypedFloat",
     "UntypedComplex", "UntypedString", "UntypedNil"}

\* types.Invalid: the kind of the type of an expression that failed to
\* type-check.
BasicKinds == MappedKinds \cup UntypedKinds \cup {"Invalid"}

\* The value standing for panic(fmt.Errorf(...)).
Panic == "panic"

\* The mapping with the 32-bit signed case returning the 64-bit code.
basicKindToKai_Int32AsS8(kind) ==
    CASE kind = "Bool"          -> "b8"
      [] kind = "Int"           -> "s8"
      [] kind = "Int8"          -> "s1"
      [] kind = "Int16"         -> "s2"
      [] kind = "Int32"         -> "s8"
      [] kind = "Int64"         -> "s8"
      [] kind = "Uint"          -> "u8"
      [] kind = "Uint8"         -> "u1"
      [] kind = "Uint16"        -> "u2"
      [] kind = "Uint32"        -> "u4"
      [] kind = "Uint64"        -> "u8"
      [] kind = "Uintptr"       -> "u8"
      [] kind = "Float32"       -> "f2"
      [] kind = "Float64"       -> "f4"
      [] kind = "Complex64"     -> "go_complex64"
      [] kind = "Complex128"    -> "go_complex128"
      [] kind = "String"        -> "go_string"
      [] kind = "UnsafePointer" -> "go_unsafe_ptr"
      [] OTHER                  -> Panic

\* The mapping without the case for String, which then reaches default.
basicKindToKai_NoStringCase(kind) ==
    CASE kind = "Bool"          -> "b8"
      [] kind = "Int"           -> "s8"
      [] kind = "Int8"          -> "s1"
      [] kind = "Int16"         -> "s2"
      [] kind = "Int32"         -> "s4"
      [] kind = "Int64"         -> "s8"
      [] kind = "Uint"          -> "u8"
      [] kind = "Uint8"         -> "u1"
      [] kind = "Uint16"        -> "u2"
      [] kind = "Uint32"        -> "u4"
      [] kind = "Uint64"        -> "u8"
      [] kind = "Uintptr"       -> "u8"
      [] kind = "Float32"       -> "f2"
      [] kind = "Float64"       -> "f4"
      [] kind = "Complex64"     -> "go_complex64"
      [] kind = "Complex128"    -> "go_complex128"
      [] kind = "UnsafePointer" -> "go_unsafe_ptr"
      [] OTHER                  -> Panic

basicKindToKai(kind) ==
    CASE kind = "Bool"          -> "b8"
      [] kind = "Int"           -> "s8"
      [] kind = "Int8"          -> "s1"
      [] kind = "Int16"         -> "s2"
      [] kind = "Int32"         -> "s4"
      [] kind = "Int64"         -> "s8"
      [] kind = "Uint"          -> "u8"
      [] kind = "Uint8"         -> "u1"
      [] kind = "Uint16"        -> "u2"
      [] kind = "Uint32"        -> "u4"
      [] kind = "Uint64"        -> "u8"
      [] kind = "Uintptr"       -> "u8"
      [] kind = "Float32"       -> "f2"
      [] kind = "Float64"       -> "f4"
      [] kind = "Complex64"     -> "go_complex64"
      [] kind = "Complex128"    -> "go_complex128"
      [] kind = "String"        -> "go_string"
      [] kind = "UnsafePointer" -> "go_unsafe_ptr"
      [] OTHER                  -> Panic


(***************************************************************************)
(* The type graph packages.Load hands over (main.go:144-157): go/types     *)
(* values, here nodes named by strings.  A node has the shape              *)
(*   [kind, bk, name, under, elem, len, fields, params]                    *)
(* of which each kind reads its own part:                                  *)
(*   Basic      bk           t.Kind()                                      *)
(*   Named      name, under  t.Obj().Name(), t.Underlying()                *)
(*   Struct     fields       t.Field(i).Name(), t.Field(i).Type()          *)
(*   Array      elem, len    t.Elem(), t.Len()                             *)
(*   Slice      elem         t.Elem()                                      *)
(*   Pointer    elem         pointee, read by types.TypeString alone       *)
(*   Signature  params       read by types.TypeString alone                *)
(*   Map        (none)       a kind neither type switch has a case for     *)
(***************************************************************************)
NoNode == "-"

Node(kind, bk, name, under, elem, len, fields, params) ==
    [kind |-> kind, bk |-> bk, name |-> name, under |-> under,
     elem |-> elem, len |-> len, fields |-> fields, params |-> params]

BasicT(bk)         == Node("Basic", bk, <<>>, NoNode, NoNode, 0, <<>>, <<>>)
NamedT(name, u)    == Node("Named", "", name, u, NoNode, 0, <<>>, <<>>)
StructT(fields)    == Node("Struct", "", <<>>, NoNode, NoNode, 0, fields, <<>>)
ArrayT(elem, len)  == Node("Array", "", <<>>, NoNode, elem, len, <<>>, <<>>)
SliceT(elem)       == Node("Slice", "", <<>>, NoNode, elem, 0, <<>>, <<>>)
PointerT(elem)     == Node("Pointer", "", <<>>, NoNode, elem, 0, <<>>, <<>>)
SignatureT(params) == Node("Signature", "", <<>>, NoNode, NoNode, 0, <<>>, params)
MapT               == Node("Map", "", <<>>, NoNode, NoNode, 0, <<>>, <<>>)

Field(name, type) == [name |-> name, type |-> type]

\* Identifiers of the package under translation.
nOrderStatus == <<"O","r","d","e","r","S","t","a","t","u","s">>
nPoint       == <<"P","o","i","n","t">>
nTreeNode    == <<"T","r","e","e","N","o","d","e">>
nList        == <<"L","i","s","t">>
nHidden      == <<"H","i","d","d","e","n">>
nOrder       == <<"O","r","d","e","r">>
nBad         == <<"B","a","d">>
nBroken      == <<"B","r","o","k","e","n">>
nRing        == <<"R","i","n","g">>
nMissing     == <<"M","i","s","s","i","n","g">>

(***************************************************************************)
(* The package the model translates:                                       *)
(*                                                                         *)
(*   type OrderStatus uint8                                                *)
(*   type Point struct { X int32; Y int32 }                                *)
(*   type TreeNode struct { Next *TreeNode; Kids []TreeNode;               *)
(*                          Pair [2]*TreeNode }                            *)
(*   type List []List                                                      *)
(*   type Ring struct { Links [2]List }                                    *)
(*   type Hidden struct { V bool }                                         *)
(*   type Order struct { Status OrderStatus; Origin Point;                 *)
(*                       Tags [4]uint8; Grid [2][]OrderStatus;             *)
(*                       HTTPCode int64; Ref *Hidden; Cb func(Hidden);     *)
(*                       Chain []List }                                    *)
(*   type Bad struct { A int32; M map[string]Point }                       *)
(*   type Broken struct { A int32; B [3]undefined }                        *)
(*                                                                         *)
(* `undefined` is declared nowhere: go/types gives the field the invalid   *)
(* type, a Basic of kind Invalid, and parsePackage does not look at the    *)
(* package's type errors.                                                  *)
(***************************************************************************)
TypeGraph ==
    [ uint8        |-> BasicT("Uint8"),
      int32        |-> BasicT("Int32"),
      int64        |-> BasicT("Int64"),
      bool         |-> BasicT("Bool"),
      invalid      |-> BasicT("Invalid"),
      OrderStatus  |-> NamedT(nOrderStatus, "uint8"),
      Point        |-> NamedT(nPoint, "structPoint"),
      structPoint  |-> StructT(<<Field(<<"X">>, "int32"),
                                 Field(<<"Y">>, "int32")>>),
      TreeNode     |-> NamedT(nTreeNode, "structTreeNode"),
      ptrTreeNode  |-> PointerT("TreeNode"),
      slcTreeNode  |-> SliceT("TreeNode"),
      arrPtrTree   |-> ArrayT("ptrTreeNode", 2),
      structTreeNode |-> StructT(<<Field(<<"N","e","x","t">>, "ptrTreeNode"),
                                    Field(<<"K","i","d","s">>, "slcTreeNode"),
                                    Field(<<"P","a","i","r">>, "arrPtrTree")>>),
      List         |-> NamedT(nList, "slcList"),
      slcList      |-> SliceT("List"),
      arrList      |-> ArrayT("List", 2),
      Ring         |-> NamedT(nRing, "structRing"),
      structRing   |-> StructT(<<Field(<<"L","i","n","k","s">>, "arrList")>>),
      Hidden       |-> NamedT(nHidden, "structHidden"),
      structHidden |-> StructT(<<Field(<<"V">>, "bool")>>),
      ptrHidden    |-> PointerT("Hidden"),
      funcHidden   |-> SignatureT(<<"Hidden">>),
      arrUint8     |-> ArrayT("uint8", 4),
      slcStatus    |-> SliceT("OrderStatus"),
      arrSlcStatus |-> ArrayT("slcStatus", 2),
      Order        |-> NamedT(nOrder, "structOrder"),
      structOrder  |-> StructT(<<Field(<<"S","t","a","t","u","s">>, "OrderStatus"),
                                 Field(<<"O","r","i","g","i","n">>, "Point"),
                                 Field(<<"T","a","g","s">>, "arrUint8"),
                                 Field(<<"G","r","i","d">>, "arrSlcStatus"),
                                 Field(<<"H","T","T","P","C","o","d","e">>, "int64"),
                                 Field(<<"R","e","f">>, "ptrHidden"),
                                 Field(<<"C","b">>, "funcHidden"),
                                 Field(<<"C","h","a","i","n">>, "slcList")>>),
      mapPoint     |-> MapT,
      Bad          |-> NamedT(nBad, "structBad"),
      structBad    |-> StructT(<<Field(<<"A">>, "int32"),
                                 Field(<<"M">>, "mapPoint")>>),
      arrInvalid   |-> ArrayT("invalid", 3),
      Broken       |-> NamedT(nBroken, "structBroken"),
      structBroken |-> StructT(<<Field(<<"A">>, "int32"),
                                 Field(<<"B">>, "arrInvalid")>>) ]

T(n) == TypeGraph[n]

(***************************************************************************)
(* g.pkg.defs after addPackage (main.go:160-192): the objects of the       *)
(* package's top-level type declarations.                                  *)
(***************************************************************************)
Defs ==
    {"OrderStatus", "Point", "TreeNode", "List", "Ring", "Hidden", "Order",
     "Bad", "Broken"}

\* The names -type may carry: the declared ones and one declared nowhere.
TypeNames == {T(d).name : d \in Defs} \cup {nMissing}

(***************************************************************************)
(* Basic.Name() and types.TypeString(t, skipQualifier)                     *)
(* (main.go:231, 248-257, 265-267): the display form of a type, as a       *)
(* sequence of runes and tokens.  A named type prints as its bare name.    *)
(***************************************************************************)
BasicName(bk) ==
    CASE bk = "Uint8" -> "uint8"
      [] bk = "Int32" -> "int32"
      [] bk = "Int64" -> "int64"
      [] bk = "Bool"  -> "bool"
      [] OTHER        -> "invalid type"

RECURSIVE JoinTypes(_)
RECURSIVE TypeString(_)
TypeString(n) ==
    LET t == T(n) IN
    CASE t.kind = "Basic"     -> <<BasicName(t.bk)>>
      [] t.kind = "Named"     -> t.name
      [] t.kind = "Array"     -> <<"[", ToString(t.len), "]">> \o TypeString(t.elem)
      [] t.kind = "Slice"     -> <<"[]">> \o TypeString(t.elem)
      [] t.kind = "Pointer"   -> <<"*">> \o TypeString(t.elem)
      [] t.kind = "Signature" -> <<"func(">> \o JoinTypes(t.params) \o <<")">>
      [] t.kind = "Map"       -> <<"map[string]Point">>
      [] OTHER                -> <<"struct{...}">>

JoinTypes(ns) ==
    IF ns = <<>> THEN <<>>
    ELSE TypeString(Head(ns))
         \o (IF Len(ns) > 1 THEN <<", ">> \o JoinTypes(Tail(ns)) ELSE <<>>)

(***************************************************************************)
(* Output lines.  Line(ind, key, val, note) is the text                    *)
(*     <ind spaces><key>: <val> # <note>                                   *)
(* with val and note sequences of runes or tokens (empty when absent).     *)
(* The key "$name" marks a line whose key is its val: "  order_status:".   *)
(***************************************************************************)
Line(ind, key, val, note) ==
    [ind |-> ind, key |-> key, val |-> val, note |-> note]

\* g.Printf("        %s\n", s) for every s of lines (main.go:218-220).
Indent(lines, by) ==
    [i \in DOMAIN lines |-> [lines[i] EXCEPT !.ind = @ + by]]

(***************************************************************************)
(* kaiType (main.go:227-263), one activation at a time.  kaiType(n) is     *)
(* what the switch does on entry for the type n:                           *)
(*   op = "return"  the activation returns `lines`, having added `deps`    *)
(*                  to g.namedTypeDeps;                                    *)
(*   op = "call"    it first calls kaiType on `arg` (lines 246, 250);      *)
(*   op = "panic"   it panics (line 260, or line 317 through               *)
(*                  basicKindToKai).                                       *)
(* kaiResume(n, child) is what an activation that called kaiType on its    *)
(* element returns once the element's lines `child` are back.  The lines   *)
(* of a result are the strings that strings.Split(..., "\n") yields at     *)
(* line 218: no line kaiType formats holds a line break.                   *)
(***************************************************************************)
KaiReturns(lines, deps) ==
    [op |-> "return", lines |-> lines, deps |-> deps, arg |-> NoNode]

KaiCalls(arg) ==
    [op |-> "call", lines |-> <<>>, deps |-> {}, arg |-> arg]

KaiPanics(deps) ==
    [op |-> "panic", lines |-> <<>>, deps |-> deps, arg |-> NoNode]

\* kaiType expanding a named struct, array or slice type in place.
kaiType_ExpandsNamed(n) ==
    LET t == T(n) IN
    CASE t.kind = "Basic" ->
           IF basicKindToKai(t.bk) = Panic THEN KaiPanics({})
           ELSE KaiReturns(<<Line(0, "type", <<basicKindToKai(t.bk)>>,
                                  <<BasicName(t.bk)>>)>>, {})
      [] t.kind = "Named" ->
           IF T(t.under).kind = "Basic"
           THEN IF basicKindToKai(T(t.under).bk) = Panic
                THEN KaiPanics({t.name})
                ELSE KaiReturns(
                       <<Line(0, "type", <<basicKindToKai(T(t.under).bk)>>, <<>>),
                         Line(0, "enum", snakeCase(t.name), <<>>)>>,
                       {t.name})
           ELSE KaiCalls(t.under)
      [] t.kind \in {"Array", "Slice"} -> KaiCalls(t.elem)
      [] t.kind = "Pointer" ->
           KaiReturns(<<Line(0, "type", <<"pointer">>, TypeString(n))>>, {})
      [] t.kind = "Signature" ->
           KaiReturns(<<Line(0, "type", <<"func_signature">>, TypeString(n))>>, {})
      [] OTHER -> KaiPanics({})

\* kaiType recording a named type only in its enum branch.
kaiType_DepOnlyForEnum(n) ==
    LET t == T(n) IN
    CASE t.kind = "Basic" ->
           IF basicKindToKai(t.bk) = Panic THEN KaiPanics({})
           ELSE KaiReturns(<<Line(0, "type", <<basicKindToKai(t.bk)>>,
                                  <<BasicName(t.bk)>>)>>, {})
      [] t.kind = "Named" ->
           IF T(t.under).kind = "Basic"
           THEN IF basicKindToKai(T(t.under).bk) = Panic
                THEN KaiPanics({t.name})
                ELSE KaiReturns(
                       <<Line(0, "type", <<basicKindToKai(T(t.under).bk)>>, <<>>),
                         Line(0, "enum", snakeCase(t.name), <<>>)>>,
                       {t.name})
           ELSE KaiReturns(<<Line(0, "type", snakeCase(t.name), t.name)>>, {})
      [] t.kind \in {"Array", "Slice"} -> KaiCalls(t.elem)
      [] t.kind = "Pointer" ->
           KaiReturns(<<Line(0, "type", <<"pointer">>, TypeString(n))>>, {})
      [] t.kind = "Signature" ->
           KaiReturns(<<Line(0, "type", <<"func_signature">>, TypeString(n))>>, {})
      [] OTHER -> KaiPanics({})

kaiType(n) ==
    LET t == T(n) IN
    CASE t.kind = "Basic" ->
           IF basicKindToKai(t.bk) = Panic THEN KaiPanics({})
           ELSE KaiReturns(<<Line(0, "type", <<basicKindToKai(t.bk)>>,
                                  <<BasicName(t.bk)>>)>>, {})
      [] t.kind = "Named" ->
           IF T(t.under).kind = "Basic"
           THEN IF basicKindToKai(T(t.under).bk) = Panic
                THEN KaiPanics({t.name})
                ELSE KaiReturns(
                       <<Line(0, "type", <<basicKindToKai(T(t.under).bk)>>, <<>>),
                         Line(0, "enum", snakeCase(t.name), <<>>)>>,
                       {t.name})
           ELSE KaiReturns(<<Line(0, "type", snakeCase(t.name), t.name)>>,
                           {t.name})
      [] t.kind \in {"Array", "Slice"} -> KaiCalls(t.elem)
      [] t.kind = "Pointer" ->
           KaiReturns(<<Line(0, "type", <<"pointer">>, TypeString(n))>>, {})
      [] t.kind = "Signature" ->
           KaiReturns(<<Line(0, "type", <<"func_signature">>, TypeString(n))>>, {})
      [] OTHER -> KaiPanics({})

\* The array and slice branches with the two repeat directives swapped.
kaiResume_RepeatExprFirst(n, child) ==
    LET t == T(n) IN
    CASE t.kind = "Array" ->
           child \o <<Line(0, "repeat-expr", <<ToString(t.len)>>, TypeString(n)),
                      Line(0, "repeat", <<"expr">>, <<>>)>>
      [] t.kind = "Slice" ->
           child \o <<Line(0, "repeat-expr", <<"todo_add_slice_len">>, TypeString(n)),
                      Line(0, "repeat", <<"expr">>, <<>>)>>
      [] OTHER -> child

kaiResume(n, child) ==
    LET t == T(n) IN
    CASE t.kind = "Array" ->
           child \o <<Line(0, "repeat", <<"expr">>, <<>>),
                      Line(0, "repeat-expr", <<ToString(t.len)>>, TypeString(n))>>
      [] t.kind = "Slice" ->
           child \o <<Line(0, "repeat", <<"expr">>, <<>>),
                      Line(0, "repeat-expr", <<"todo_add_slice_len">>, TypeString(n))>>
      [] OTHER -> child

(***************************************************************************)
(* The state of one run of main (main.go:35-105).                          *)
(***************************************************************************)
VARIABLES
    pc,             \* where main is
    types,          \* strings.Split(*typeNames, ",")
    typeIdx,        \* index into types of the loop at main.go:78
    cur,            \* `underlying` of generate, `t` of generateType
    fieldIdx,       \* i of the loop at main.go:215
    stack,          \* the activations of kaiType, outermost first
    ret,            \* the lines the last finished activation returned
    buf,            \* g.buf
    namedTypeDeps,  \* g.namedTypeDeps
    written,        \* ioutil.WriteFile has returned nil
    file,           \* the content of the output file
    kinds,          \* KindSpec: the kinds basicKindToKai is called with
    codes,          \* KindSpec: what the calls returned
    ident,          \* SnakeSpec: the string snakeCase is called with
    norm            \* SnakeSpec: snakeCase(ident), snakeCase(snakeCase(ident))

runVars == <<pc, types, typeIdx, cur, fieldIdx, stack, ret, buf,
             namedTypeDeps, written, file>>
kindVars == <<kinds, codes>>
snakeVars == <<ident, norm>>
vars == <<pc, types, typeIdx, cur, fieldIdx, stack, ret, buf,
          namedTypeDeps, written, file, kinds, codes, ident, norm>>

\* Sequences over S of length lo..hi.
SeqsOf(S, lo, hi) == UNION {[1..k -> S] : k \in lo..hi}

\* No run of main: the state of the run's variables in KindSpec, SnakeSpec.
NoRun ==
    /\ pc = "idle" /\ types = <<>> /\ typeIdx = 0 /\ cur = NoNode
    /\ fieldIdx = 0 /\ stack = <<>> /\ ret = <<>> /\ buf = <<>>
    /\ namedTypeDeps = {} /\ written = FALSE /\ file = <<>>

\* main.go:44, 59: the type names of the command line, a fresh Generator.
Init ==
    /\ pc = "main"
    /\ types \in SeqsOf(TypeNames, 1, MaxTypes)
    /\ typeIdx = 0 /\ cur = NoNode /\ fieldIdx = 0
    /\ stack = <<>> /\ ret = <<>> /\ buf = <<>>
    /\ namedTypeDeps = {}
    /\ written = FALSE /\ file = <<>>
    /\ kinds = <<>> /\ codes = <<>> /\ ident = <<>> /\ norm = <<>>

Fields == T(cur).fields
Top == stack[Len(stack)]
Pop == SubSeq(stack, 1, Len(stack) - 1)

\* main.go:72-77: the header comment, an empty line, "types:".
Header ==
    /\ pc = "main"
    /\ buf' = <<Line(0, "# Code generated by", <<>>, <<>>),
                Line(0, "", <<>>, <<>>),
                Line(0, "types", <<>>, <<>>)>>
    /\ typeIdx' = 1
    /\ pc' = "loop"
    /\ UNCHANGED <<types, cur, fieldIdx, stack, ret, namedTypeDeps, written,
                   file, kinds, codes, ident, norm>>

\* generate logging an unknown type name and returning, instead of exiting.
Generate_SkipsUnknown ==
    /\ pc = "loop" /\ typeIdx <= Len(types)
    /\ LET typeName == types[typeIdx]
           found == {d \in Defs : T(d).name = typeName}
       IN IF found = {}
          THEN /\ typeIdx' = typeIdx + 1
               /\ UNCHANGED <<pc, cur, buf>>
          ELSE \E d \in found :
               /\ cur' = T(d).under
               /\ buf' = buf \o <<Line(2, "$name", snakeCase(typeName), <<>>),
                                  Line(4, "seq", <<>>, <<>>)>>
               /\ pc' = "generateType"
               /\ UNCHANGED typeIdx
    /\ UNCHANGED <<types, fieldIdx, stack, ret, namedTypeDeps,
                   written, file, kinds, codes, ident, norm>>

\* generate (main.go:195-210) up to its call of generateType: log.Fatalf
\* when no definition bears the name.
Generate ==
    /\ pc = "loop" /\ typeIdx <= Len(types)
    /\ LET typeName == types[typeIdx]
           found == {d \in Defs : T(d).name = typeName}
       IN IF found = {}
          THEN /\ pc' = "fatal"
               /\ UNCHANGED <<cur, buf>>
          ELSE \E d \in found :
               /\ cur' = T(d).under
               /\ buf' = buf \o <<Line(2, "$name", snakeCase(typeName), <<>>),
                                  Line(4, "seq", <<>>, <<>>)>>
               /\ pc' = "generateType"
    /\ UNCHANGED <<types, typeIdx, fieldIdx, stack, ret, namedTypeDeps,
                   written, file, kinds, codes, ident, norm>>

\* generateType with its field loop starting at 1 instead of 0.
GenerateType_SkipsFirstField ==
    /\ pc = "generateType"
    /\ IF T(cur).kind = "Struct"
       THEN /\ fieldIdx' = 2
            /\ pc' = "fields"
       ELSE /\ pc' = "panic"
            /\ UNCHANGED fieldIdx
    /\ UNCHANGED <<types, typeIdx, cur, stack, ret, buf, namedTypeDeps,
                   written, file, kinds, codes, ident, norm>>

\* The type switch of generateType (main.go:213-224).
GenerateType ==
    /\ pc = "generateType"
    /\ IF T(cur).kind = "Struct"
       THEN /\ fieldIdx' = 1
            /\ pc' = "fields"
       ELSE /\ pc' = "panic"
            /\ UNCHANGED fieldIdx
    /\ UNCHANGED <<types, typeIdx, cur, stack, ret, buf, namedTypeDeps,
                   written, file, kinds, codes, ident, norm>>

\* main.go:215-218: the "- id:" line of field i, then the call of kaiType.
FieldBegin ==
    /\ pc = "fields" /\ fieldIdx <= Len(Fields)
    /\ buf' = Append(buf, Line(6, "- id", snakeCase(Fields[fieldIdx].name), <<>>))
    /\ stack' = <<[t |-> Fields[fieldIdx].type, waiting |-> FALSE]>>
    /\ ret' = <<>>
    /\ pc' = "kaiType"
    /\ UNCHANGED <<types, typeIdx, cur, fieldIdx, namedTypeDeps, written,
                   file, kinds, codes, ident, norm>>

\* The innermost activation of kaiType runs its switch.
KaiCall ==
    /\ pc = "kaiType" /\ stack # <<>> /\ ~Top.waiting
    /\ LET k == kaiType(Top.t) IN
       /\ namedTypeDeps' = namedTypeDeps \cup k.deps
       /\ CASE k.op = "return" ->
                 /\ ret' = k.lines
                 /\ stack' = Pop
                 /\ pc' = pc
            [] k.op = "call" ->
                 /\ Len(stack) < MaxDepth
                 /\ ret' = <<>>
                 /\ stack' = Append([stack EXCEPT ![Len(stack)].waiting = TRUE],
                                    [t |-> k.arg, waiting |-> FALSE])
                 /\ pc' = pc
            [] OTHER ->
                 /\ pc' = "panic"
                 /\ UNCHANGED <<stack, ret>>
    /\ UNCHANGED <<types, typeIdx, cur, fieldIdx, buf, written, file,
                   kinds, codes, ident, norm>>

\* An activation gets its element's lines back and returns its own.
KaiReturn ==
    /\ pc = "kaiType" /\ stack # <<>> /\ Top.waiting /\ ret # <<>>
    /\ ret' = kaiResume(Top.t, ret)
    /\ stack' = Pop
    /\ UNCHANGED <<pc, types, typeIdx, cur, fieldIdx, buf, namedTypeDeps,
                   written, file, kinds, codes, ident, norm>>

\* main.go:218-220: the lines of the field's translation, indented.
FieldEnd ==
    /\ pc = "kaiType" /\ stack = <<>> /\ ret # <<>>
    /\ buf' = buf \o Indent(ret, 8)
    /\ ret' = <<>>
    /\ fieldIdx' = fieldIdx + 1
    /\ pc' = "fields"
    /\ UNCHANGED <<types, typeIdx, cur, stack, namedTypeDeps, written, file,
                   kinds, codes, ident, norm>>

\* The loop over the requested types stepping by two.
TypeDone_SkipsNext ==
    /\ pc = "fields" /\ fieldIdx > Len(Fields)
    /\ typeIdx' = typeIdx + 2
    /\ pc' = "loop"
    /\ UNCHANGED <<types, cur, fieldIdx, stack, ret, buf, namedTypeDeps,
                   written, file, kinds, codes, ident, norm>>

\* generateType and generate return; the loop at main.go:78 moves on.
TypeDone ==
    /\ pc = "fields" /\ fieldIdx > Len(Fields)
    /\ typeIdx' = typeIdx + 1
    /\ pc' = "loop"
    /\ UNCHANGED <<types, cur, fieldIdx, stack, ret, buf, namedTypeDeps,
                   written, file, kinds, codes, ident, norm>>

\* main.go:82-90: the dependencies are logged; no state of the run changes.
Report ==
    /\ pc = "loop" /\ typeIdx > Len(types)
    /\ pc' = "write"
    /\ UNCHANGED <<types, typeIdx, cur, fieldIdx, stack, ret, buf,
                   namedTypeDeps, written, file, kinds, codes, ident, norm>>

\* main.go:92-104: ioutil.WriteFile writes g.buf, or fails and main exits.
WriteFile ==
    /\ pc = "write"
    /\ \/ /\ file' = buf
          /\ written' = TRUE
          /\ pc' = "done"
       \/ /\ pc' = "fatal"
          /\ UNCHANGED <<file, written>>
    /\ UNCHANGED <<types, typeIdx, cur, fieldIdx, stack, ret, buf,
                   namedTypeDeps, kinds, codes, ident, norm>>

Next ==
    \/ Header
    \/ Generate
    \/ GenerateType
    \/ FieldBegin
    \/ KaiCall
    \/ KaiReturn
    \/ FieldEnd
    \/ TypeDone
    \/ Report
    \/ WriteFile

Spec == Init /\ [][Next]_vars

\* main is one sequential program: it takes its next step while it has one.
FairSpec == Init /\ [][Next]_vars /\ WF_vars(Next)

(***************************************************************************)
(* basicKindToKai on its own: every pair of kinds, mapped.                 *)
(***************************************************************************)
KindInit ==
    /\ NoRun
    /\ kinds \in BasicKinds \X BasicKinds
    /\ codes = <<>>
    /\ ident = <<>> /\ norm = <<>>

MapKinds ==
    /\ codes = <<>> /\ kinds # <<>>
    /\ codes' = <<basicKindToKai(kinds[1]), basicKindToKai(kinds[2])>>
    /\ UNCHANGED <<runVars, kinds, snakeVars>>

KindNext == MapKinds

KindSpec == KindInit /\ [][KindNext]_vars

(***************************************************************************)
(* snakeCase on its own: every short string over SnakeRunes, normalized    *)
(* and normalized again.                                                   *)
(***************************************************************************)
SnakeRunes == {"a", "B", "C", "_", UncasedUpper}

SnakeInit ==
    /\ NoRun
    /\ kinds = <<>> /\ codes = <<>>
    /\ ident \in SeqsOf(SnakeRunes, 0, MaxIdentLen)
    /\ norm = <<>>

Normalize ==
    /\ pc = "idle" /\ norm = <<>>
    /\ norm' = <<snakeCase(ident)>>
    /\ UNCHANGED <<runVars, kindVars, ident>>

Renormalize ==
    /\ pc = "idle" /\ Len(norm) = 1
    /\ norm' = Append(norm, snakeCase(norm[1]))
    /\ UNCHANGED <<runVars, kindVars, ident>>

SnakeNext == Normalize \/ Renormalize

SnakeSpec == SnakeInit /\ [][SnakeNext]_vars

(***************************************************************************)
(* What the properties below speak of, read off the type graph and the     *)
(* output alone.                                                           *)
(***************************************************************************)
Terminated == pc \in {"done", "fatal", "panic"}

Resolves(name) == \E d \in Defs : T(d).name = name

UnderOf(name) == T(CHOOSE d \in Defs : T(d).name = name).under

\* The type of a field has a layout the translation defines.
RECURSIVE FieldSupported(_)
FieldSupported(n) ==
    LET t == T(n) IN
    CASE t.kind = "Basic" -> t.bk \in MappedKinds
      [] t.kind = "Named" ->
           T(t.under).kind = "Basic" => T(t.under).bk \in MappedKinds
      [] t.kind \in {"Array", "Slice"} -> FieldSupported(t.elem)
      [] t.kind \in {"Pointer", "Signature"} -> TRUE
      [] OTHER -> FALSE

Translatable(name) ==
    /\ Resolves(name)
    /\ T(UnderOf(name)).kind = "Struct"
    /\ \A i \in DOMAIN T(UnderOf(name)).fields :
          FieldSupported(T(UnderOf(name)).fields[i].type)

\* The named types a field's type reaches as itself or as the element of
\* arrays and slices, at any depth.
RECURSIVE NamedReached(_)
NamedReached(n) ==
    LET t == T(n) IN
    CASE t.kind = "Named" -> {t.name}
      [] t.kind \in {"Array", "Slice"} -> NamedReached(t.elem)
      [] OTHER -> {}

ExpectedDeps ==
    UNION {UNION {NamedReached(T(UnderOf(types[k])).fields[i].type) :
                    i \in DOMAIN T(UnderOf(types[k])).fields} :
           k \in DOMAIN types}

\* The document's lines from index 4 on, cut into the entries of its
\* top-level types: an entry starts at each line indented by 2.
EntryStarts(doc) == {i \in DOMAIN doc : doc[i].ind = 2}

EntryKeys(doc) == SelectSeq(doc, LAMBDA l : l.ind = 2)

\* The k-th entry of doc, its key line and "seq:" line left out.
EntryBody(doc, k) ==
    LET starts == EntryStarts(doc)
        first == CHOOSE i \in starts : Cardinality({j \in starts : j < i}) = k - 1
        later == {j \in starts : j > first}
        last == IF later = {} THEN Len(doc)
                ELSE (CHOOSE j \in later : \A j2 \in later : j <= j2) - 1
    IN SubSeq(doc, first + 2, last)

IsIdLine(l) == l.key = "- id"

Directives == {"type", "enum", "repeat", "repeat-expr"}

(***************************************************************************)
(* C1.  Translation is all-or-nothing: the output file is written only     *)
(* after every requested type name has been resolved and translated, and   *)
(* then holds the whole buffer; a run that has a requested name that does  *)
(* not resolve, or reaches an unsupported type kind or basic kind, never   *)
(* writes the file, nor does a run that exited or panicked.                *)
(***************************************************************************)
C1_AllOrNothing ==
    /\ written =>
         /\ pc = "done"
         /\ typeIdx = Len(types) + 1
         /\ \A k \in DOMAIN types : Translatable(types[k])
         /\ file = buf
    /\ ~written => file = <<>>
    /\ pc \in {"fatal", "panic"} => ~written

\* The second requested type fails after the first one's entry is buffered.
C1_Witness ==
    /\ pc = "panic" /\ typeIdx = 2
    /\ \E i \in DOMAIN buf : IsIdLine(buf[i])
    /\ ~written /\ file = <<>>

(***************************************************************************)
(* C2.  Requesting the named type OrderStatus, whose underlying type is    *)
(* uint8, completes and yields the entry order_status with the lines       *)
(* "type: u1" and "enum: order_status".                                    *)
(***************************************************************************)
C2_NamedBasicEntry ==
    types = <<nOrderStatus>> =>
        /\ pc # "panic"
        /\ pc = "done" =>
             \E i \in DOMAIN file :
                /\ i + 2 <= Len(file)
                /\ file[i].key = "$name" /\ file[i].val = snakeCase(nOrderStatus)
                /\ \E j \in i + 1 .. Len(file) - 1 :
                      /\ file[j].key = "type" /\ file[j].val = <<"u1">>
                      /\ file[j + 1].key = "enum"
                      /\ file[j + 1].val = snakeCase(nOrderStatus)

(***************************************************************************)
(* C3.  As claimed: any two distinct kinds the mapper has a case for map   *)
(* to distinct codes.                                                      *)
(***************************************************************************)
C3_Injective ==
    (/\ codes # <<>>
     /\ kinds[1] # kinds[2]
     /\ kinds[1] \in MappedKinds /\ kinds[2] \in MappedKinds)
    => codes[1] # codes[2]

\* The kinds of one 64-bit width and signedness.
Signed64 == {"Int", "Int64"}
Unsigned64 == {"Uint", "Uint64", "Uintptr"}

(***************************************************************************)
(* C3, amended.  Every kind the mapper has a case for gets a code, and two *)
(* distinct such kinds get the same code exactly when both are among Int,  *)
(* Int64 (s8) or both among Uint, Uint64, Uintptr (u8).                    *)
(***************************************************************************)
C3_InjectiveUpToWidth ==
    (/\ codes # <<>>
     /\ kinds[1] # kinds[2]
     /\ kinds[1] \in MappedKinds /\ kinds[2] \in MappedKinds)
    => /\ codes[1] # Panic /\ codes[2] # Panic
       /\ codes[1] = codes[2] <=>
            \/ {kinds[1], kinds[2]} \subseteq Signed64 /\ codes[1] = "s8"
            \/ {kinds[1], kinds[2]} \subseteq Unsigned64 /\ codes[1] = "u8"

C3_Witness ==
    /\ kinds = <<"Uint", "Uintptr">>
    /\ codes = <<"u8", "u8">>

\* The kinds the claim names as outside the supported subset.
NotFixedWidth == {"String", "Complex64", "Complex128", "UnsafePointer"}

(***************************************************************************)
(* C4.  As claimed: the mapper panics for the textual, complex and         *)
(* unsafe-pointer kinds and for every untyped-constant kind.               *)
(***************************************************************************)
C4_NotFixedWidthPanics ==
    (codes # <<>> /\ kinds[1] \in NotFixedWidth \cup UntypedKinds)
    => codes[1] = Panic

(***************************************************************************)
(* C4, amended.  The mapper panics exactly for the untyped-constant kinds  *)
(* and the invalid kind; String, Complex64, Complex128 and UnsafePointer   *)
(* return go_string, go_complex64, go_complex128 and go_unsafe_ptr.        *)
(***************************************************************************)
C4_OnlyUntypedPanics ==
    codes # <<>> =>
        /\ codes[1] = Panic <=> kinds[1] \in UntypedKinds \cup {"Invalid"}
        /\ kinds[1] = "String" => codes[1] = "go_string"
        /\ kinds[1] = "Complex64" => codes[1] = "go_complex64"
        /\ kinds[1] = "Complex128" => codes[1] = "go_complex128"
        /\ kinds[1] = "UnsafePointer" => codes[1] = "go_unsafe_ptr"

C4_Witness ==
    /\ kinds = <<"UntypedNil", "String">>
    /\ codes = <<Panic, "go_string">>

(***************************************************************************)
(* C5.  snakeCase is idempotent: normalizing a normalized string returns   *)
(* it unchanged.                                                           *)
(***************************************************************************)
C5_Idempotent == Len(norm) = 2 => norm[2] = norm[1]

(***************************************************************************)
(* C6.  In the written document the entry of a struct with N fields holds  *)
(* exactly N "- id:" lines, the i-th with the normalized name of the i-th  *)
(* declared field; each is followed by at least one directive line, and    *)
(* every other line of the entry is a directive line indented one level    *)
(* (8 against 6) under the "- id:" lines, none of them an "- id:" line.    *)
(***************************************************************************)
C6_FieldOrder ==
    pc = "done" =>
      \A k \in DOMAIN types :
        LET body == EntryBody(file, k)
            fields == T(UnderOf(types[k])).fields
            ids == SelectSeq(body, IsIdLine)
        IN /\ Len(ids) = Len(fields)
           /\ \A i \in DOMAIN fields :
                 ids[i] = Line(6, "- id", snakeCase(fields[i].name), <<>>)
           /\ \A j \in DOMAIN body :
                 IF IsIdLine(body[j])
                 THEN j < Len(body) /\ ~IsIdLine(body[j + 1])
                 ELSE body[j].ind = 8 /\ body[j].key \in Directives
           /\ (fields # <<>>) => IsIdLine(body[1])

\* Order's eight fields, among them multi-line ones, are in the document.
C6_Witness ==
    /\ pc = "done" /\ types = <<nPoint, nOrder>>
    /\ Len(SelectSeq(EntryBody(file, 2), IsIdLine)) = 8
    /\ Len(EntryBody(file, 2)) > 16

(***************************************************************************)
(* C7.  The document has one top-level entry per requested type name       *)
(* translated so far, keyed by the normalized name, in the order           *)
(* requested, and in the end one per requested name; a named type found    *)
(* as a dependency has an entry only if it was requested.                  *)
(***************************************************************************)
C7_EntriesAreRequests ==
    LET keys == EntryKeys(buf) IN
    /\ Len(keys) <= Len(types)
    /\ \A k \in DOMAIN keys :
          keys[k] = Line(2, "$name", snakeCase(types[k]), <<>>)
    /\ pc \in {"write", "done"} => Len(keys) = Len(types)
    /\ pc = "done" => file = buf
    /\ \A dep \in namedTypeDeps :
          (\E k \in DOMAIN keys : keys[k].val = snakeCase(dep))
             => \E k \in DOMAIN types : types[k] = dep

\* Order was translated; of its dependencies only Point is an entry.
C7_Witness ==
    /\ pc = "done" /\ types = <<nOrder, nPoint>>
    /\ {nOrderStatus, nPoint, nList} \subseteq namedTypeDeps
    /\ Len(EntryKeys(file)) = 2

(***************************************************************************)
(* C8.  An activation of kaiType on a named type whose underlying type is  *)
(* not basic returns at once, without calling kaiType again, the single    *)
(* line "type: <normalized name> # <name>"; and every run terminates,      *)
(* those over the self-referential TreeNode, List and Ring included.       *)
(***************************************************************************)
C8_NamedRefStep ==
    (/\ pc = "kaiType" /\ stack # <<>> /\ ~Top.waiting
     /\ T(Top.t).kind = "Named"
     /\ T(T(Top.t).under).kind # "Basic")
    => /\ stack' = Pop
       /\ ret' = <<Line(0, "type", snakeCase(T(Top.t).name), T(Top.t).name)>>
       /\ pc' = "kaiType"

C8_NamedRefTerminates == [][C8_NamedRefStep]_vars /\ <>Terminated

\* TreeNode (through a pointer, a slice, an array) and Ring (through an
\* array of List, itself a slice of List) were translated.
C8_Witness ==
    /\ pc = "done" /\ types = <<nTreeNode, nRing>>
    /\ \E i \in DOMAIN file :
          file[i] = Line(8, "type", snakeCase(nTreeNode), nTreeNode)
    /\ \E i \in DOMAIN file :
          file[i] = Line(8, "type", snakeCase(nList), nList)

(***************************************************************************)
(* C9.  g.namedTypeDeps starts empty, never loses a name, and after a      *)
(* successful run is exactly the set of named types that the fields of     *)
(* the requested types reach directly or as elements of arrays and         *)
(* slices: not those behind a pointer or in a signature, and a requested   *)
(* name only if a field refers to it.                                      *)
(***************************************************************************)
C9_DependencySet ==
    /\ namedTypeDeps = {}
    /\ [][namedTypeDeps \subseteq namedTypeDeps']_vars
    /\ [](pc = "done" => namedTypeDeps = ExpectedDeps)

\* Order alone: Hidden (behind a pointer, in a signature) and Order itself
\* are not recorded; the enum, the struct and the slice element are.
C9_Witness ==
    /\ pc = "done" /\ types = <<nOrder>>
    /\ namedTypeDeps = {nOrderStatus, nPoint, nList}
    /\ nHidden \notin namedTypeDeps /\ nOrder \notin namedTypeDeps

\* lines ends with the repeat directives of n, outermost last, and what
\* precedes them is the element's translation.
RECURSIVE RepeatShape(_, _)
RepeatShape(n, lines) ==
    LET t == T(n)
        len == Len(lines)
    IN IF t.kind \in {"Array", "Slice"}
       THEN /\ len >= 3
            /\ lines[len - 1].key = "repeat" /\ lines[len - 1].val = <<"expr">>
            /\ lines[len].key = "repeat-expr"
            /\ lines[len].val = IF t.kind = "Array" THEN <<ToString(t.len)>>
                                ELSE <<"todo_add_slice_len">>
            /\ RepeatShape(t.elem, SubSeq(lines, 1, len - 2))
       ELSE /\ len >= 1
            /\ \A i \in DOMAIN lines : lines[i].key \in {"type", "enum"}

(***************************************************************************)
(* C10.  The translation of a field whose type is an array of length L is  *)
(* the element's translation, then "repeat: expr", then "repeat-expr: L";  *)
(* of a slice the same with todo_add_slice_len for L; nested, the inner    *)
(* directives come first and the outermost repeat-expr is the last line.   *)
(* A [4]uint8 field yields type: u1, repeat: expr, repeat-expr: 4.         *)
(***************************************************************************)
C10_RepeatDirectives ==
    (pc = "kaiType" /\ stack = <<>> /\ ret # <<>>) =>
        /\ RepeatShape(Fields[fieldIdx].type, ret)
        /\ Fields[fieldIdx].type = "arrUint8" =>
             /\ Len(ret) = 3
             /\ ret[1].key = "type" /\ ret[1].val = <<"u1">>
             /\ ret[2].key = "repeat" /\ ret[2].val = <<"expr">>
             /\ ret[3].key = "repeat-expr" /\ ret[3].val = <<"4">>

\* Grid [2][]OrderStatus: the enum's two lines, the slice's, the array's.
C10_Witness ==
    /\ pc = "kaiType" /\ stack = <<>>
    /\ Fields[fieldIdx].type = "arrSlcStatus"
    /\ Len(ret) = 6
    /\ ret[4].val = <<"todo_add_slice_len">>
    /\ ret[6].val = <<"2">>

=============================================================================
